---- MODULE Spec2Model ----
(***************************************************************************)
(* The ISAP maximum-flow engine (src/isap.h, src/isap.cc) and the          *)
(* lower/upper-bound feasibility reduction built on it                     *)
(* (src/isap_feasible_flow.cc), as a state machine.                        *)
(*                                                                         *)
(* Indices are 0-based as in the source: position i of a node's edge       *)
(* vector is element i+1 of the TLA+ sequence, and Edge.rev and cur[]      *)
(* hold 0-based positions.                                                 *)
(*                                                                         *)
(* The vector gap has n cells.  An access gap[k] with k outside 0..n-1 is  *)
(* undefined behaviour.  Its outcomes are modelled as a choice: the access *)
(* aborts the process (pc = "crashed": a checked or hardened build, or a   *)
(* corrupted allocator header), or it touches memory next to the vector    *)
(* and the call goes on (a stray write changes none of adj, level, cur,    *)
(* path; a stray read-modify-write yields zero or non-zero).  ub records   *)
(* that an undefined step was taken.                                       *)
(***************************************************************************)
EXTENDS Integers, Sequences, FiniteSets, TLC

\* ---- bounds of the model
MaxNodes == 3
MaxEdges == 3
MaxCap == 2
MaxCalls == 2
NetNodes == 4
NetEdges == 3
WideNodes == 5
WideEdges == 5
FeasNodes == 4
FeasEdges == 3
MaxBound == 2

\* ---- program constants
INF == 1000000000
IntMax == 2147483647

VARIABLES
    n,       \* Isap::n
    adj,     \* Isap::adj : node -> sequence of Edge records
    level,   \* Isap::level
    gap,     \* Isap::gap (the n cells that exist)
    cur,     \* isap(): cur
    path,    \* isap(): path
    u,       \* isap(): u
    flow,    \* isap(): flow
    s, t,    \* isap(): the arguments of the call in progress (or of the last call)
    pc,      \* "build" | "loop" | "scan" | "done" | "crashed" | "input" | "aux" | "verdict"
    ret,     \* the value the last isap() call returned
    ub,      \* history: an undefined step has been taken
    gapIdx,  \* history: the gap indices the latest retreat used
    calls,   \* history: number of isap() calls made on this graph
    prev,    \* history: <<s, t>> of the call before the current one
    made,    \* history: per add_edge call, the two records it created
    fin,     \* has_feasible_flow(): its arguments [n, s, t, edges]
    tpd,     \* has_feasible_flow(): total_positive_demand
    verdict  \* has_feasible_flow(): "none" before it returns, then TRUE / FALSE

vars == <<n, adj, level, gap, cur, path, u, flow, s, t, pc, ret, ub, gapIdx,
          calls, prev, made, fin, tpd, verdict>>

feasVars == <<fin, tpd, verdict>>

Nodes == 0 .. n - 1

Min(S) == CHOOSE x \in S : \A y \in S : x <= y

\* ---------------------------------------------------------------- add_edge

\* Isap::Isap(int n): n empty edge vectors.
EmptyAdj(nn) == [x \in 0 .. nn - 1 |-> <<>>]

\* Isap::add_edge: the forward record stores adj[v].size() read BEFORE either
\* push_back, the reverse record stores adj[u].size() - 1 read after the first.
AddEdgeTo(a, x, y, c) ==
    LET fwd == [to |-> y, cap |-> c, flow |-> 0, rev |-> Len(a[y])]
        a1  == [a EXCEPT ![x] = Append(@, fwd)]
        bwd == [to |-> x, cap |-> 0, flow |-> 0, rev |-> Len(a1[x]) - 1]
    IN  [a1 EXCEPT ![y] = Append(@, bwd)]

\* The positions (0-based) of the two records one add_edge(x, y, c) call
\* appends to graph a: first the forward one, then the reverse one.
MadeBy(a, x, y, c) ==
    [from |-> x, fpos |-> Len(a[x]),
     to |-> y, rpos |-> IF x = y THEN Len(a[x]) + 1 ELSE Len(a[y]),
     cap |-> c]

\* ---------------------------------------------------------------- bfs

Residual(e) == e.cap - e.flow

RECURSIVE BfsScan(_, _, _, _, _, _)
BfsScan(a, x, i, q, lv, gp) ==
    IF i > Len(a[x]) THEN [q |-> q, level |-> lv, gap |-> gp]
    ELSE LET e == a[x][i]
             v == e.to
             r == a[v][e.rev + 1]
         IN  IF lv[v] = -1 /\ r.cap > r.flow
             THEN BfsScan(a, x, i + 1, Append(q, v),
                          [lv EXCEPT ![v] = lv[x] + 1],
                          [gp EXCEPT ![lv[x] + 1] = @ + 1])
             ELSE BfsScan(a, x, i + 1, q, lv, gp)

RECURSIVE BfsLoop(_, _, _, _)
BfsLoop(a, q, lv, gp) ==
    IF q = <<>> THEN [level |-> lv, gap |-> gp]
    ELSE LET r == BfsScan(a, Head(q), 1, Tail(q), lv, gp)
         IN  BfsLoop(a, r.q, r.level, r.gap)

\* Isap::bfs(t) on graph a with nn nodes: the new level and gap vectors.
Bfs(a, nn, tt) ==
    BfsLoop(a, <<tt>>,
            [x \in 0 .. nn - 1 |-> IF x = tt THEN 0 ELSE -1],
            [k \in 0 .. nn - 1 |-> IF k = 0 THEN 1 ELSE 0])

\* ---------------------------------------------------------------- isap: helpers

\* A wrong bottleneck: the residual of the first arc of the path only.
BottleneckOfFirstArc(a, c, p) ==
    IF p = <<>> THEN INF ELSE a[p[1]][c[p[1]] + 1].cap - a[p[1]][c[p[1]] + 1].flow

\* The bottleneck of the augmentation: f starts at INF and is lowered to the
\* residual of the current arc of every node on the path.
Bottleneck(a, c, p) ==
    Min({INF} \cup {Residual(a[p[i]][c[p[i]] + 1]) : i \in 1 .. Len(p)})

\* A wrong push: the loop stops one path node early (i < path.size() - 1).
RECURSIVE PushFlowButLast(_, _, _, _, _)
PushFlowButLast(a, c, p, f, i) ==
    IF i > Len(p) - 1 THEN a
    ELSE LET x  == p[i]
             k  == c[x] + 1
             e  == a[x][k]
             a1 == [a EXCEPT ![x][k].flow = @ + f]
             a2 == [a1 EXCEPT ![e.to][e.rev + 1].flow = @ - f]
         IN  PushFlowButLast(a2, c, p, f, i + 1)

\* The second loop of the augmentation, from path position i on: the current
\* arc of each path node gains f, the record its rev names (in the vector of
\* its destination) loses f.
RECURSIVE PushFlow(_, _, _, _, _)
PushFlow(a, c, p, f, i) ==
    IF i > Len(p) THEN a
    ELSE LET x  == p[i]
             k  == c[x] + 1
             e  == a[x][k]
             a1 == [a EXCEPT ![x][k].flow = @ + f]
             a2 == [a1 EXCEPT ![e.to][e.rev + 1].flow = @ - f]
         IN  PushFlow(a2, c, p, f, i + 1)

\* The test of the scan loop on the edge at 0-based position i of node x.
Admissible(a, lv, x, i) ==
    LET e == a[x][i + 1] IN e.cap > e.flow /\ lv[x] = lv[e.to] + 1

\* The positions the scan loop stops at: it starts at cur[x] and breaks at
\* the first admissible edge.
AdmissibleFrom(a, lv, c, x) ==
    {i \in c[x] .. Len(a[x]) - 1 : Admissible(a, lv, x, i)}

\* min_level of the retreat: n, lowered to the level of the destination of
\* every edge of x with residual capacity (the raw level, -1 included).
MinLevel(a, lv, x, nn) ==
    Min({nn} \cup {lv[a[x][i].to] : i \in {j \in 1 .. Len(a[x]) : a[x][j].cap > a[x][j].flow}})

\* The locals of isap() do not outlive the call.
NoLocals == /\ cur' = [x \in Nodes |-> 0]
            /\ path' = <<>>
            /\ u' = 0
            /\ flow' = 0

\* ---------------------------------------------------------------- actions: building a graph

\* Isap::add_edge(x, y, c) before any flow computation.
AddEdge(x, y, c) ==
    /\ pc = "build"
    /\ calls = 0
    /\ adj' = AddEdgeTo(adj, x, y, c)
    /\ made' = Append(made, MadeBy(adj, x, y, c))
    /\ UNCHANGED <<n, level, gap, cur, path, u, flow, s, t, pc, ret, ub,
                   gapIdx, calls, prev, fin, tpd, verdict>>

\* ---------------------------------------------------------------- actions: isap(s, t)

\* Entry of isap(ss, tt): bfs(tt), the early return when level[ss] is -1,
\* otherwise the initialisation of flow, u, cur and path.
Enter(ss, tt) ==
    LET b == Bfs(adj, n, tt) IN
    /\ level' = b.level
    /\ gap' = b.gap
    /\ s' = ss
    /\ t' = tt
    /\ prev' = IF calls = 0 THEN <<-1, -1>> ELSE <<s, t>>
    /\ calls' = calls + 1
    /\ gapIdx' = {}
    /\ cur' = [x \in Nodes |-> 0]
    /\ path' = <<>>
    /\ flow' = 0
    /\ IF b.level[ss] = -1
       THEN /\ ret' = 0
            /\ u' = 0
            /\ pc' = "done"
       ELSE /\ ret' = ret
            /\ u' = ss
            /\ pc' = "loop"
    /\ UNCHANGED <<n, adj, ub, made>>

\* A caller invokes isap(ss, tt) on the graph: the first call, or one more
\* after the previous call has returned.
Call(ss, tt) ==
    /\ pc \in {"build", "done"}
    /\ calls < MaxCalls
    /\ Enter(ss, tt)
    /\ UNCHANGED feasVars

\* while (level[s] < n) is false: return flow.
LoopExit ==
    /\ pc = "loop"
    /\ ~(level[s] < n)
    /\ ret' = flow
    /\ pc' = "done"
    /\ NoLocals
    /\ UNCHANGED <<n, adj, level, gap, s, t, ub, gapIdx, calls, prev, made,
                   fin, tpd, verdict>>

\* if (u == t) { ... }: bottleneck, push, flow += f, u = s, path.clear().
\* flow + f beyond INT_MAX is a signed overflow: the sum wraps or traps.
Augment ==
    /\ pc = "loop"
    /\ level[s] < n
    /\ u = t
    /\ LET f == Bottleneck(adj, cur, path) IN
       /\ adj' = PushFlow(adj, cur, path, f, 1)
       /\ u' = s
       /\ path' = <<>>
       /\ IF flow <= IntMax - f
          THEN /\ flow' = flow + f
               /\ pc' = "scan"
               /\ ub' = ub
          ELSE /\ ub' = TRUE
               /\ \/ /\ flow' = (flow - IntMax - 1) + (f - IntMax - 1)
                     /\ pc' = "scan"
                  \/ /\ flow' = flow
                     /\ pc' = "crashed"
    /\ UNCHANGED <<n, level, gap, cur, s, t, ret, gapIdx, calls, prev, made,
                   fin, tpd, verdict>>

\* The scan loop is entered: after the augmentation, or straight from the
\* loop test when u is not t.
Scanning == \/ pc = "scan"
            \/ pc = "loop" /\ level[s] < n /\ u # t

\* The scan finds an admissible edge: cur[u] stops there, u is pushed on the
\* path, and u moves to the edge's destination.
Advance ==
    /\ Scanning
    /\ AdmissibleFrom(adj, level, cur, u) # {}
    /\ LET i == Min(AdmissibleFrom(adj, level, cur, u)) IN
       /\ cur' = [cur EXCEPT ![u] = i]
       /\ path' = Append(path, u)
       /\ u' = adj[u][i + 1].to
    /\ pc' = "loop"
    /\ UNCHANGED <<n, adj, level, gap, flow, s, t, ret, ub, gapIdx, calls,
                   prev, made, fin, tpd, verdict>>

\* What follows "if (--gap[level[u]] == 0) break;" when the loop goes on:
\* gap[level[u] = min_level + 1]++, cur[u] = 0, and one step back on the path.
\* g is gap after the decrement, idx the index the decrement used, stray
\* whether the decrement was a stray access.  An index min_level + 1 outside
\* 0..n-1 is a stray write: the call goes on with gap untouched, or the
\* process aborts.
Relabel(g, idx, stray) ==
    LET nl == MinLevel(adj, level, u, n) + 1 IN
    /\ level' = [level EXCEPT ![u] = nl]
    /\ gapIdx' = {idx, nl}
    /\ flow' = flow
    /\ ret' = ret
    /\ cur' = [cur EXCEPT ![u] = 0]
    /\ IF path # <<>>
       THEN /\ u' = path[Len(path)]
            /\ path' = SubSeq(path, 1, Len(path) - 1)
       ELSE /\ u' = u
            /\ path' = path
    /\ IF nl \in 0 .. n - 1
       THEN /\ gap' = [g EXCEPT ![nl] = @ + 1]
            /\ ub' = (ub \/ stray)
            /\ pc' = "loop"
       ELSE /\ gap' = g
            /\ ub' = TRUE
            /\ pc' \in {"loop", "crashed"}

\* The break of the gap heuristic: the loop is left and flow is returned.
GapBreak(g, idx, stray) ==
    /\ gap' = g
    /\ gapIdx' = {idx}
    /\ level' = level
    /\ ret' = flow
    /\ ub' = (ub \/ stray)
    /\ pc' = "done"
    /\ NoLocals

\* A stray gap access aborts the process.
Abort(idx) ==
    /\ pc' = "crashed"
    /\ ub' = TRUE
    /\ gapIdx' = {idx}
    /\ UNCHANGED <<level, gap, cur, path, u, flow, ret>>

\* The scan finds no admissible edge: relabel and retreat, or break.
\* level[u] outside 0..n-1 makes --gap[level[u]] a stray read-modify-write,
\* whose result may or may not be zero.
Retreat ==
    /\ Scanning
    /\ AdmissibleFrom(adj, level, cur, u) = {}
    /\ IF level[u] \in 0 .. n - 1
       THEN LET g == [gap EXCEPT ![level[u]] = @ - 1] IN
            IF g[level[u]] = 0
            THEN GapBreak(g, level[u], FALSE)
            ELSE Relabel(g, level[u], FALSE)
       ELSE \/ GapBreak(gap, level[u], TRUE)
            \/ Relabel(gap, level[u], TRUE)
            \/ Abort(level[u])
    /\ UNCHANGED <<n, adj, s, t, calls, prev, made, fin, tpd, verdict>>

\* One step of a running isap() call.
Step == LoopExit \/ Augment \/ Advance \/ Retreat

\* ---------------------------------------------------------------- specification: any caller

InitWith(nn) ==
    /\ n = nn
    /\ adj = EmptyAdj(nn)
    /\ level = [x \in 0 .. nn - 1 |-> 0]
    /\ gap = [x \in 0 .. nn - 1 |-> 0]
    /\ cur = [x \in 0 .. nn - 1 |-> 0]
    /\ path = <<>>
    /\ u = 0
    /\ flow = 0
    /\ s = 0
    /\ t = 0
    /\ ret = 0
    /\ ub = FALSE
    /\ gapIdx = {}
    /\ calls = 0
    /\ prev = <<-1, -1>>
    /\ made = <<>>
    /\ tpd = 0
    /\ verdict = "none"

NoInput == [n |-> 0, s |-> 0, t |-> 0, edges |-> <<>>]

\* A graph of 1..MaxNodes nodes, no edge yet.
Init ==
    /\ \E nn \in 1 .. MaxNodes : InitWith(nn)
    /\ pc = "build"
    /\ fin = NoInput

\* The caller adds up to MaxEdges edges, any endpoints (self-loops included),
\* capacities 0..MaxCap, in any order.
Build ==
    /\ Len(made) < MaxEdges
    /\ \E x \in Nodes, y \in Nodes, c \in 0 .. MaxCap : AddEdge(x, y, c)

\* The caller runs isap on any pair of nodes (s = t included).
Invoke == \E ss \in Nodes, tt \in Nodes : Call(ss, tt)

Next == Build \/ Invoke \/ LoopExit \/ Augment \/ Advance \/ Retreat

Spec == Init /\ [][Next]_vars

\* ---------------------------------------------------------------- specification: flow networks

\* The pair <<m.from, m.to>> comes before <<x, y>> in lexicographic order.
PairBefore(m, x, y) == m.from < x \/ (m.from = x /\ m.to < y)

\* The caller builds a flow network between node 0 and node 1: up to k edges
\* with distinct endpoint pairs, added in lexicographic order, none entering
\* node 0, none leaving node 1, no self-loop, capacities 1..MaxCap.
NetBuildUpTo(k) ==
    /\ Len(made) < k
    /\ \E x \in Nodes \ {1}, y \in Nodes \ {0}, c \in 1 .. MaxCap :
          /\ x # y
          /\ made # <<>> => PairBefore(made[Len(made)], x, y)
          /\ AddEdge(x, y, c)

\* Networks on NetNodes nodes with up to NetEdges edges; the caller runs
\* isap(0, 1) or isap(1, 0), up to MaxCalls times in any order.
NetInit ==
    /\ InitWith(NetNodes)
    /\ pc = "build"
    /\ fin = NoInput

NetBuild == NetBuildUpTo(NetEdges)

NetInvoke == Call(0, 1) \/ Call(1, 0)

NetNext == NetBuild \/ NetInvoke \/ LoopExit \/ Augment \/ Advance \/ Retreat

NetSpec == NetInit /\ [][NetNext]_vars

\* Networks on WideNodes nodes with up to WideEdges edges; the caller runs
\* isap(0, 1), up to MaxCalls times.
WideInit ==
    /\ InitWith(WideNodes)
    /\ pc = "build"
    /\ fin = NoInput

WideBuild == NetBuildUpTo(WideEdges)

WideInvoke == Call(0, 1)

WideNext == WideBuild \/ WideInvoke \/ LoopExit \/ Augment \/ Advance \/ Retreat

WideSpec == WideInit /\ [][WideNext]_vars

\* ---------------------------------------------------------------- has_feasible_flow

RECURSIVE SeqSum(_)
SeqSum(q) == IF q = <<>> THEN 0 ELSE Head(q) + SeqSum(Tail(q))

\* demand[v] after the loop "demand[edge.u] -= edge.lower; demand[edge.v] += edge.lower".
Demand(in, v) ==
    SeqSum([i \in 1 .. Len(in.edges) |->
              (IF in.edges[i].v = v THEN in.edges[i].lower ELSE 0)
            - (IF in.edges[i].u = v THEN in.edges[i].lower ELSE 0)])

\* total_positive_demand after the loop over the nodes.
TotalPositiveDemand(in) ==
    SeqSum([i \in 1 .. in.n |-> IF Demand(in, i - 1) > 0 THEN Demand(in, i - 1) ELSE 0])

\* The add_edge calls on the auxiliary graph for the nodes i .. n-1:
\* SS -> i for a positive demand, i -> TT for a negative one.
RECURSIVE DemandEdges(_, _)
DemandEdges(in, i) ==
    IF i >= in.n THEN <<>>
    ELSE LET d == Demand(in, i)
             here == IF d > 0 THEN << <<in.n, i, d>> >>
                     ELSE IF d < 0 THEN << <<i, in.n + 1, -d>> >>
                     ELSE <<>>
         IN  here \o DemandEdges(in, i + 1)

\* The slack edges: one per input edge with upper - lower > 0, in input order.
RECURSIVE SlackEdges(_)
SlackEdges(es) ==
    IF es = <<>> THEN <<>>
    ELSE LET e == Head(es)
         IN  (IF e.upper - e.lower > 0
              THEN << <<e.u, e.v, e.upper - e.lower>> >> ELSE <<>>)
             \o SlackEdges(Tail(es))

\* Every add_edge call has_feasible_flow makes, in order; last t -> s with INF.
AuxEdges(in) ==
    SlackEdges(in.edges) \o DemandEdges(in, 0) \o << <<in.t, in.s, INF>> >>

\* The graph (and the records made) after the add_edge calls es on g.
RECURSIVE AddAll(_, _)
AddAll(g, es) ==
    IF es = <<>> THEN g
    ELSE LET e == Head(es)
         IN  AddAll([adj  |-> AddEdgeTo(g.adj, e[1], e[2], e[3]),
                     made |-> Append(g.made, MadeBy(g.adj, e[1], e[2], e[3]))],
                    Tail(es))

\* The caller appends one bounded edge to the vector it will pass.
FeasInput(x, y, lo, up) ==
    /\ pc = "input"
    /\ fin' = [fin EXCEPT !.edges = Append(@, [u |-> x, v |-> y, lower |-> lo, upper |-> up])]
    /\ UNCHANGED <<n, adj, level, gap, cur, path, u, flow, s, t, pc, ret, ub,
                   gapIdx, calls, prev, made, tpd, verdict>>

\* has_feasible_flow up to the call of isap: the lower > upper check (return
\* false), the demands, and the auxiliary graph on n + 2 nodes.
FeasBuild ==
    /\ pc = "input"
    /\ IF \E i \in 1 .. Len(fin.edges) : fin.edges[i].lower > fin.edges[i].upper
       THEN /\ verdict' = FALSE
            /\ pc' = "verdict"
            /\ UNCHANGED <<n, adj, level, gap, cur, made, tpd>>
       ELSE LET g == AddAll([adj |-> EmptyAdj(fin.n + 2), made |-> <<>>], AuxEdges(fin)) IN
            /\ n' = fin.n + 2
            /\ adj' = g.adj
            /\ made' = g.made
            /\ level' = [x \in 0 .. fin.n + 1 |-> 0]
            /\ gap' = [x \in 0 .. fin.n + 1 |-> 0]
            /\ cur' = [x \in 0 .. fin.n + 1 |-> 0]
            /\ tpd' = TotalPositiveDemand(fin)
            /\ verdict' = verdict
            /\ pc' = "aux"
    /\ UNCHANGED <<path, u, flow, s, t, ret, ub, gapIdx, calls, prev, fin>>

\* int max_flow_aux = isap_aux.isap(SS, TT): the call is entered.
FeasCall ==
    /\ pc = "aux"
    /\ Enter(n - 2, n - 1)
    /\ UNCHANGED feasVars

\* return max_flow_aux == total_positive_demand.
FeasVerdict ==
    /\ pc = "done"
    /\ verdict' = (ret = tpd)
    /\ pc' = "verdict"
    /\ UNCHANGED <<n, adj, level, gap, cur, path, u, flow, s, t, ret, ub,
                   gapIdx, calls, prev, made, fin, tpd>>

\* ---------------------------------------------------------------- specification: feasibility

\* has_feasible_flow(nn, 0, tt, edges) for 2 <= nn <= FeasNodes, 1 <= tt < nn.
FeasInit ==
    /\ InitWith(0)
    /\ pc = "input"
    /\ \E nn \in 2 .. FeasNodes : \E tt \in 1 .. nn - 1 :
          fin = [n |-> nn, s |-> 0, t |-> tt, edges |-> <<>>]

\* Up to FeasEdges bounded edges between distinct nodes, at most one per
\* ordered pair, listed in lexicographic order, bounds 0..MaxBound (lower
\* above upper included).
FeasEdge ==
    /\ Len(fin.edges) < FeasEdges
    /\ \E x \in 0 .. fin.n - 1, y \in 0 .. fin.n - 1,
          lo \in 0 .. MaxBound, up \in 0 .. MaxBound :
          /\ x # y
          /\ fin.edges # <<>> =>
                LET l == fin.edges[Len(fin.edges)]
                IN  l.u < x \/ (l.u = x /\ l.v < y)
          /\ FeasInput(x, y, lo, up)

FeasNext == FeasEdge \/ FeasBuild \/ FeasCall \/ FeasVerdict
            \/ LoopExit \/ Augment \/ Advance \/ Retreat

FeasSpec == FeasInit /\ [][FeasNext]_vars

\* ---------------------------------------------------------------- fair runs

\* A call that has been entered keeps taking steps (the loop is sequential
\* code; nothing suspends it).
WideFairSpec == WideSpec /\ WF_vars(Step)

\* Every entered call ends: it returns, or an undefined step aborts it.
CallEnds == [](pc \in {"loop", "scan"} => <>(pc \in {"done", "crashed"}))

\* ---------------------------------------------------------------- the records of an edge

FwdRec(m) == adj[m.from][m.fpos + 1]
RevRec(m) == adj[m.to][m.rpos + 1]

\* Flow on forward edges entering / leaving node v.
InFlow(v) ==
    SeqSum([i \in 1 .. Len(made) |-> IF made[i].to = v THEN FwdRec(made[i]).flow ELSE 0])
OutFlow(v) ==
    SeqSum([i \in 1 .. Len(made) |-> IF made[i].from = v THEN FwdRec(made[i]).flow ELSE 0])

\* Capacity of the cut (S, complement of S), and the minimum over the cuts
\* that separate ss from tt: the value of a maximum ss-tt flow.
CutCap(S) ==
    SeqSum([i \in 1 .. Len(made) |->
              IF made[i].from \in S /\ made[i].to \notin S THEN made[i].cap ELSE 0])
MinCut(ss, tt) ==
    Min({CutCap(S) : S \in {X \in SUBSET Nodes : ss \in X /\ tt \notin X}})

\* Net flow leaving node v under the assignment f of the bounded edges of in.
NetOut(in, f, v) ==
    SeqSum([i \in 1 .. Len(in.edges) |->
              (IF in.edges[i].u = v THEN f[i] ELSE 0)
            - (IF in.edges[i].v = v THEN f[i] ELSE 0)])

\* f respects every bound and is conserved at every node other than s and t.
IsFeasible(in, f) ==
    /\ \A i \in 1 .. Len(in.edges) : in.edges[i].lower <= f[i] /\ f[i] <= in.edges[i].upper
    /\ \A v \in (0 .. in.n - 1) \ {in.s, in.t} : NetOut(in, f, v) = 0

\* A feasible assignment exists that carries its flow from s towards t.
FeasibleTowardsSink(in) ==
    \E f \in [1 .. Len(in.edges) -> 0 .. MaxBound] :
       IsFeasible(in, f) /\ NetOut(in, f, in.s) >= 0

\* ---------------------------------------------------------------- claims

\* C1: the first isap(s, t) call on a graph built with add_edge, s # t,
\* returns the value of a maximum s-t flow (the minimum s-t cut capacity).
\* Stated for the runs in which every step is defined.
MaxFlowReturned ==
    (pc = "done" /\ calls = 1 /\ s # t /\ ~ub) => ret = MinCut(s, t)

\* C2: has_feasible_flow returns true when a feasible integer assignment
\* exists (here: one whose flow goes from s towards t, which the claim's
\* condition accepts).  Stated for the runs in which every step is defined.
FeasibleAccepted ==
    (pc = "verdict" /\ ~ub /\ FeasibleTowardsSink(fin)) => verdict = TRUE

\* C3: an isap(s, t) call made right after an isap(s, t) call with the same
\* s # t has returned yields 0.
SecondCallReturnsZero ==
    (pc = "done" /\ calls >= 2 /\ prev = <<s, t>> /\ s # t /\ ~ub) => ret = 0

\* C4: every isap call runs to its return statement by defined steps: no
\* step taken is undefined, and no call is cut short.  Stated for the calls
\* with s # t.
IsapRunsDefined ==
    (calls > 0 /\ s # t) => (~ub /\ pc # "crashed")

\* C5: every forward edge has 0 <= flow <= cap, its paired reverse edge has
\* flow equal to the negated forward flow, and both residuals are >= 0, in
\* every state, over any number of sequential calls.
FlowWithinCapacity ==
    \A i \in 1 .. Len(made) :
       LET f == FwdRec(made[i])
           r == RevRec(made[i])
       IN  /\ 0 <= f.flow
           /\ f.flow <= f.cap
           /\ r.flow = - f.flow
           /\ Residual(f) >= 0
           /\ Residual(r) >= 0

\* C5 witness: a second call, in the opposite direction, has returned after
\* pushing flow back, and some forward edge is left partly used.
PartlyUsedAfterTwoCalls ==
    /\ pc = "done"
    /\ calls = 2
    /\ prev = <<t, s>>
    /\ ret > 0
    /\ \E i \in 1 .. Len(made) :
          0 < FwdRec(made[i]).flow /\ FwdRec(made[i]).flow < made[i].cap

EdgesPaired ==
    \A i \in 1 .. Len(made) :
       LET m == made[i]
           f == FwdRec(m)
           r == RevRec(m)
       IN  /\ f.to = m.to
           /\ f.rev = m.rpos
           /\ r.to = m.from
           /\ r.rev = m.fpos
           /\ f.cap = m.cap
           /\ r.cap = 0

\* A step of the main loop lowers no level and advances to no node of level -1.
LoopStepKeepsLabels ==
    pc \in {"loop", "scan"} =>
       /\ \A x \in Nodes : level'[x] >= level[x]
       /\ (Len(path') > Len(path)) => (level[u'] # -1)

\* C8: in the main loop a node of level -1 counts as level n: no advance
\* moves to such a node, and no relabel lowers the level of a node.
UnreachedCountsAsN == [][LoopStepKeepsLabels]_vars

\* C9: in a call with s # t, every gap index a retreat uses (level[u] for
\* the decrement, min_level + 1 for the increment) lies in 0..n-1.
GapIndexInRange ==
    s # t => \A k \in gapIdx : k \in 0 .. n - 1

\* C10: isap(s, s) returns 0.
SameNodeReturnsZero ==
    (pc = "done" /\ calls > 0 /\ s = t) => ret = 0

====
